---- MODULE Spec2Model ----
(***************************************************************************)
(* Model of the DNS-record request builder (src/request/builder/dns.rs)    *)
(* and of the Account response display (src/response/account.rs).          *)
(*                                                                         *)
(* Text (a formatted String, a JSON body) is a sequence of tokens: the     *)
(* literal pieces of a format string, the values substituted into it, one  *)
(* token per decimal digit of a number, and "\n" as a token of its own.    *)
(***************************************************************************)
EXTENDS Integers, Sequences, FiniteSets, TLC

VARIABLES
    pc,         \* where the call chain stands: "scoped", "built" (a verb has
                \* returned), "panicked" (unwrap on Err), "retrieved"; and
                \* "record"/"record_shown", "account"/"account_shown"
    builder,    \* the RequestBuilder the chain owns (NoBuilder once moved out)
    self,       \* the builder the last verb was called on
    record,     \* the DnsRecord passed to the last create/update, or displayed
    verb,       \* the last verb called: "create", "update", "delete", "none"
    calls,      \* number of verb calls of the chain
    retrieved,  \* number of executions of the chain
    shown,      \* the text written by Display::fmt
    account     \* the Account displayed

vars == <<pc, builder, self, record, verb, calls, retrieved, shown, account>>

(* ------------------------------ bounds -------------------------------- *)

\* largest u64 drawn for priority, port and weight (three decimal digits)
MaxNum == 120
\* largest integer part drawn for Account.droplet_limit
MaxLimit == 27

(* --------------------------- Option<T> -------------------------------- *)

NoneStr == [some |-> FALSE, v |-> ""]
SomeStr(s) == [some |-> TRUE, v |-> s]
NoneU64 == [some |-> FALSE, v |-> 0]
SomeU64(n) == [some |-> TRUE, v |-> n]
NoneBody == [some |-> FALSE, v |-> <<>>]
SomeBody(t) == [some |-> TRUE, v |-> t]

(* ------------------------- u64::to_string ----------------------------- *)

Digit == <<"0", "1", "2", "3", "4", "5", "6", "7", "8", "9">>

RECURSIVE u64_to_string(_)
u64_to_string(n) ==
    IF n < 10 THEN <<Digit[n + 1]>>
    ELSE u64_to_string(n \div 10) \o <<Digit[(n % 10) + 1]>>

(* ---------------------------- DnsRecord ------------------------------- *)

\* the values the record fields are drawn from: strings without a newline,
\* a quote or a backslash (nothing the JSON encoder would have to escape)
RecTypes == {"A", "MX"}
Names == {NoneStr, SomeStr("www")}
Datas == {NoneStr, SomeStr("1.2.3.4")}
Priorities == {NoneU64, SomeU64(0), SomeU64(MaxNum)}
Ports == {NoneU64, SomeU64(80)}
Weights == {NoneU64, SomeU64(7)}

DnsRecord ==
    [rec_type : RecTypes, name : Names, priority : Priorities,
     port : Ports, data : Datas, weight : Weights]

NoRecord ==
    [rec_type |-> "", name |-> NoneStr, priority |-> NoneU64,
     port |-> NoneU64, data |-> NoneStr, weight |-> NoneU64]

(* ------------------- serde::json::to_string(record) ------------------- *)

JsonString(s) == <<"\"", s, "\"">>
JsonOptString(o) == IF o.some THEN JsonString(o.v) ELSE <<"null">>
JsonOptU64(o) == IF o.some THEN u64_to_string(o.v) ELSE <<"null">>
JsonField(key, value) == JsonString(key) \o <<":">> \o value

\* variant: absent optional fields are left out of the object
JsonMember(key, o, value) ==
    IF o.some THEN <<",">> \o JsonField(key, value) ELSE <<>>

DnsRecord_serialize_skip_none(r) ==
    <<"{">>
    \o JsonField("type", JsonString(r.rec_type))
    \o JsonMember("name", r.name, JsonOptString(r.name))
    \o JsonMember("priority", r.priority, JsonOptU64(r.priority))
    \o JsonMember("port", r.port, JsonOptU64(r.port))
    \o JsonMember("data", r.data, JsonOptString(r.data))
    \o JsonMember("weight", r.weight, JsonOptU64(r.weight))
    \o <<"}">>

\* #[derive(Serialize)]: one member per field, in declaration order, the
\* first under its renamed key
DnsRecord_serialize(r) ==
    <<"{">>
    \o JsonField("type", JsonString(r.rec_type)) \o <<",">>
    \o JsonField("name", JsonOptString(r.name)) \o <<",">>
    \o JsonField("priority", JsonOptU64(r.priority)) \o <<",">>
    \o JsonField("port", JsonOptU64(r.port)) \o <<",">>
    \o JsonField("data", JsonOptString(r.data)) \o <<",">>
    \o JsonField("weight", JsonOptU64(r.weight))
    \o <<"}">>

\* Result<String, Error>
Ok(t) == [ok |-> TRUE, v |-> t]
Err == [ok |-> FALSE, v |-> <<>>]

\* json::to_string returns a Result: the text, or the serializer's error
to_string(r) == {Ok(DnsRecord_serialize(r)), Err}

(* ------------------ impl fmt::Display for DnsRecord ------------------- *)

OrNoneStr(o) == IF o.some THEN <<o.v>> ELSE <<"None">>
OrNoneU64(o) == IF o.some THEN u64_to_string(o.v) ELSE <<"None">>

\* variant: the fields are written in the order the struct declares them
DnsRecord_fmt_declared_order(this) ==
    <<"Record Type: ", this.rec_type, "\n">>
    \o <<"Name: ">> \o OrNoneStr(this.name) \o <<"\n">>
    \o <<"Priority: ">> \o OrNoneU64(this.priority) \o <<"\n">>
    \o <<"Port: ">> \o OrNoneU64(this.port) \o <<"\n">>
    \o <<"Data: ">> \o OrNoneStr(this.data) \o <<"\n">>
    \o <<"Weight: ">> \o OrNoneU64(this.weight) \o <<"\n">>

DnsRecord_fmt(this) ==
    <<"Record Type: ", this.rec_type, "\n">>
    \o <<"Name: ">> \o OrNoneStr(this.name) \o <<"\n">>
    \o <<"Data: ">> \o OrNoneStr(this.data) \o <<"\n">>
    \o <<"Priority: ">> \o OrNoneU64(this.priority) \o <<"\n">>
    \o <<"Port: ">> \o OrNoneU64(this.port) \o <<"\n">>
    \o <<"Weight: ">> \o OrNoneU64(this.weight) \o <<"\n">>

(* ------------------------------ Account ------------------------------- *)

\* an f64: NaN, an infinity, or sign, integer part and fractional part, the
\* fractional part by its position relative to one half
Fracs == {"zero", "below_half", "half", "above_half"}

Finite(neg, int, frac) == [kind |-> "finite", neg |-> neg, int |-> int, frac |-> frac]
NaN == [kind |-> "nan", neg |-> FALSE, int |-> 0, frac |-> "zero"]
Infinity(neg) == [kind |-> "inf", neg |-> neg, int |-> 0, frac |-> "zero"]

F64 ==
    {Finite(neg, int, frac) : neg \in BOOLEAN, int \in 0..MaxLimit, frac \in Fracs}
    \cup {NaN, Infinity(FALSE), Infinity(TRUE)}

Emails == {"a@b.com", "ops@example.org"}
Uuids == {"abc-123", "def-456"}

Account ==
    [droplet_limit : F64, email : Emails, uuid : Uuids, email_verified : BOOLEAN]

NoAccount ==
    [droplet_limit |-> NaN, email |-> "", uuid |-> "", email_verified |-> FALSE]

bool_fmt(b) == IF b THEN "true" ELSE "false"

Sign(x) == IF x.neg THEN <<"-">> ELSE <<>>

\* a representative first decimal of the fractional part
FracDigit(frac) ==
    CASE frac = "zero" -> "0"
      [] frac = "below_half" -> "2"
      [] frac = "half" -> "5"
      [] frac = "above_half" -> "7"

\* variant: "{:.1}", one decimal place
f64_fmt_precision_1(x) ==
    CASE x.kind = "nan" -> <<"NaN">>
      [] x.kind = "inf" -> Sign(x) \o <<"inf">>
      [] x.kind = "finite" ->
            Sign(x) \o u64_to_string(x.int) \o <<".", FracDigit(x.frac)>>

\* "{:.0}": rounded to the nearest integer, a tie to the even one
RoundHalfEven(x) ==
    IF x.frac = "above_half" \/ (x.frac = "half" /\ x.int % 2 = 1)
    THEN x.int + 1
    ELSE x.int

f64_fmt_precision_0(x) ==
    CASE x.kind = "nan" -> <<"NaN">>
      [] x.kind = "inf" -> Sign(x) \o <<"inf">>
      [] x.kind = "finite" -> Sign(x) \o u64_to_string(RoundHalfEven(x))

Account_fmt(this) ==
    <<"DigitalOcean Account:", "\n">>
    \o <<"\tEmail: ", this.email, "\n">>
    \o <<"\tDroplet Limit: ">> \o f64_fmt_precision_0(this.droplet_limit) \o <<"\n">>
    \o <<"\tUUID: ", this.uuid, "\n">>
    \o <<"\tE-Mail Verified: ", bool_fmt(this.email_verified)>>

(* -------------------------- RequestBuilder ---------------------------- *)

Methods == {"GET", "POST", "PUT", "DELETE"}
Urls == {"https://api.digitalocean.com/v2/domains/super.com/records",
         "https://api.digitalocean.com/v2/domains/super.com/records/1234"}
Auths == {"token-1", "token-2"}
Bodies == {NoneBody, SomeBody(<<"{", "}">>)}

RequestBuilder(m, a, u, t, b) ==
    [method |-> m, auth |-> a, url |-> u, resp_t |-> t, body |-> b]

NoBuilder == RequestBuilder("", "", "", "", NoneBody)

\* the builders a resource scope hands out: dns_records() and dns_record(id)
Scoped ==
    {RequestBuilder(m, a, u, t, b) :
        m \in Methods, a \in Auths, u \in Urls,
        t \in {"DnsRecords", "DnsRecord"}, b \in Bodies}

\* variant: the verbs are offered on the single-record builder as well
AnyRecordRequest(b) == b.resp_t \in {"DnsRecords", "DnsRecord"}

\* the receiver type of the three impl blocks: RequestBuilder<DnsRecords>
DnsRecordsRequest(b) == b.resp_t = "DnsRecords"

\* variant: the body is carried over from the receiver
create_keeps_body(this, json) ==
    RequestBuilder("POST", this.auth, this.url, "DnsRecord", this.body)

create(this, json) ==
    RequestBuilder("POST", this.auth, this.url, "DnsRecord", SomeBody(json))

\* variant: auth and url are filled from each other
update_swaps(this, json) ==
    RequestBuilder("PUT", this.url, this.auth, "DnsRecord", SomeBody(json))

update(this, json) ==
    RequestBuilder("PUT", this.auth, this.url, "DnsRecord", SomeBody(json))

\* variant: the body is carried over from the receiver
delete_keeps_body(this) ==
    RequestBuilder("DELETE", this.auth, this.url, "HeaderOnly", this.body)

\* variant: the result is typed as a single-record request
delete_as_record(this) ==
    RequestBuilder("DELETE", this.auth, this.url, "DnsRecord", NoneBody)

delete(this) ==
    RequestBuilder("DELETE", this.auth, this.url, "HeaderOnly", NoneBody)

(* ----------------------------- actions -------------------------------- *)

Init ==
    /\ pc = "scoped"
    /\ builder \in Scoped
    /\ self = NoBuilder
    /\ record = NoRecord
    /\ verb = "none"
    /\ calls = 0
    /\ retrieved = 0
    /\ shown = <<>>
    /\ account = NoAccount

\* builder.create(&r): moves the builder in; unwrap() panics on Err
Create ==
    /\ pc \in {"scoped", "built"}
    /\ DnsRecordsRequest(builder)
    /\ \E r \in DnsRecord : \E res \in to_string(r) :
        /\ self' = builder
        /\ record' = r
        /\ verb' = "create"
        /\ calls' = calls + 1
        /\ IF res.ok
           THEN /\ builder' = create(builder, res.v)
                /\ pc' = "built"
           ELSE /\ builder' = NoBuilder
                /\ pc' = "panicked"
    /\ UNCHANGED <<retrieved, shown, account>>

\* builder.update(&r)
Update ==
    /\ pc \in {"scoped", "built"}
    /\ DnsRecordsRequest(builder)
    /\ \E r \in DnsRecord : \E res \in to_string(r) :
        /\ self' = builder
        /\ record' = r
        /\ verb' = "update"
        /\ calls' = calls + 1
        /\ IF res.ok
           THEN /\ builder' = update(builder, res.v)
                /\ pc' = "built"
           ELSE /\ builder' = NoBuilder
                /\ pc' = "panicked"
    /\ UNCHANGED <<retrieved, shown, account>>

\* builder.delete()
Delete ==
    /\ pc \in {"scoped", "built"}
    /\ DnsRecordsRequest(builder)
    /\ self' = builder
    /\ builder' = delete(builder)
    /\ verb' = "delete"
    /\ calls' = calls + 1
    /\ pc' = "built"
    /\ UNCHANGED <<record, retrieved, shown, account>>

\* builder.retrieve(): the executor takes the builder by value
Retrieve ==
    /\ pc \in {"scoped", "built"}
    /\ builder' = NoBuilder
    /\ retrieved' = retrieved + 1
    /\ pc' = "retrieved"
    /\ UNCHANGED <<self, record, verb, calls, shown, account>>

Next == Create \/ Update \/ Delete \/ Retrieve

Spec == Init /\ [][Next]_vars

(* ------------------- displaying a record: println!("{}", r) ----------- *)

InitRecord ==
    /\ pc = "record"
    /\ record \in DnsRecord
    /\ shown = <<>>
    /\ builder = NoBuilder
    /\ self = NoBuilder
    /\ verb = "none"
    /\ calls = 0
    /\ retrieved = 0
    /\ account = NoAccount

DisplayRecord ==
    /\ pc = "record"
    /\ shown' = DnsRecord_fmt(record)
    /\ pc' = "record_shown"
    /\ UNCHANGED <<builder, self, record, verb, calls, retrieved, account>>

NextRecord == DisplayRecord

SpecRecord == InitRecord /\ [][NextRecord]_vars

(* ------------------ displaying an account: println!("{}", a) ---------- *)

InitAccount ==
    /\ pc = "account"
    /\ account \in Account
    /\ shown = <<>>
    /\ builder = NoBuilder
    /\ self = NoBuilder
    /\ record = NoRecord
    /\ verb = "none"
    /\ calls = 0
    /\ retrieved = 0

DisplayAccount ==
    /\ pc = "account"
    /\ shown' = Account_fmt(account)
    /\ pc' = "account_shown"
    /\ UNCHANGED <<builder, self, record, verb, calls, retrieved, account>>

NextAccount == DisplayAccount

SpecAccount == InitAccount /\ [][NextAccount]_vars

(* ------------------------- reading text back -------------------------- *)

\* the text as one string
RECURSIVE Flatten(_)
Flatten(text) ==
    IF text = <<>> THEN "" ELSE Head(text) \o Flatten(Tail(text))

\* the text cut at its newlines: the lines, each without its newline, and
\* last what follows the final newline (empty when the text ends in one)
RECURSIVE SplitLines(_, _, _)
SplitLines(text, lines, line) ==
    IF text = <<>> THEN Append(lines, line)
    ELSE IF Head(text) = "\n" THEN SplitLines(Tail(text), Append(lines, line), <<>>)
    ELSE SplitLines(Tail(text), lines, Append(line, Head(text)))

Lines(text) == SplitLines(text, <<>>, <<>>)

(* -------------------------- decoding JSON ----------------------------- *)

IsDigit(t) == \E d \in 1..10 : Digit[d] = t
DigitValue(t) == (CHOOSE d \in 1..10 : Digit[d] = t) - 1

JNull == [kind |-> "null", s |-> "", n |-> 0]
JStr(s) == [kind |-> "string", s |-> s, n |-> 0]
JNum(n) == [kind |-> "number", s |-> "", n |-> n]
BadJson == [ok |-> FALSE, members |-> <<>>]

RECURSIVE ParseNumber(_, _, _)
ParseNumber(toks, i, acc) ==
    IF i <= Len(toks) /\ IsDigit(toks[i])
    THEN ParseNumber(toks, i + 1, acc * 10 + DigitValue(toks[i]))
    ELSE [ok |-> TRUE, val |-> JNum(acc), next |-> i]

ParseValue(toks, i) ==
    IF i > Len(toks) THEN [ok |-> FALSE, val |-> JNull, next |-> i]
    ELSE IF toks[i] = "null" THEN [ok |-> TRUE, val |-> JNull, next |-> i + 1]
    ELSE IF toks[i] = "\"" /\ i + 2 <= Len(toks) /\ toks[i + 2] = "\""
         THEN [ok |-> TRUE, val |-> JStr(toks[i + 1]), next |-> i + 3]
    ELSE IF IsDigit(toks[i]) THEN ParseNumber(toks, i, 0)
    ELSE [ok |-> FALSE, val |-> JNull, next |-> i]

RECURSIVE ParseMembers(_, _, _)
ParseMembers(toks, i, acc) ==
    LET key == ParseValue(toks, i) IN
    IF ~(key.ok /\ key.val.kind = "string"
         /\ key.next <= Len(toks) /\ toks[key.next] = ":")
    THEN BadJson
    ELSE LET value == ParseValue(toks, key.next + 1)
             members == Append(acc, [key |-> key.val.s, val |-> value.val])
         IN IF ~value.ok \/ value.next > Len(toks) THEN BadJson
            ELSE IF toks[value.next] = "," THEN ParseMembers(toks, value.next + 1, members)
            ELSE IF toks[value.next] = "}" /\ value.next = Len(toks)
                 THEN [ok |-> TRUE, members |-> members]
            ELSE BadJson

json_decode(toks) ==
    IF Len(toks) >= 2 /\ toks[1] = "{" THEN ParseMembers(toks, 2, <<>>) ELSE BadJson

Keys(obj) == {obj.members[i].key : i \in 1..Len(obj.members)}
Values(obj, key) ==
    {obj.members[i].val : i \in {j \in 1..Len(obj.members) : obj.members[j].key = key}}

OfOptStr(o) == IF o.some THEN JStr(o.v) ELSE JNull
OfOptU64(o) == IF o.some THEN JNum(o.v) ELSE JNull

RecordKeys == {"type", "name", "priority", "port", "data", "weight"}

ScenarioRecord ==
    [rec_type |-> "A", name |-> SomeStr("www"), data |-> SomeStr("1.2.3.4"),
     priority |-> NoneU64, port |-> NoneU64, weight |-> NoneU64]

ScenarioAccount ==
    [droplet_limit |-> Finite(FALSE, 25, "zero"), email |-> "a@b.com",
     uuid |-> "abc-123", email_verified |-> TRUE]

Built(v) == pc = "built" /\ verb = v

(* ------------------------------ claims -------------------------------- *)

\* C1: create returns a POST builder and update a PUT builder, and in both
\* the body is present and is the JSON encoding of the record passed, never
\* the body of the builder the verb was called on.
C1_CreateUpdateBody ==
    /\ Built("create") => builder.method = "POST"
    /\ Built("update") => builder.method = "PUT"
    /\ Built("create") \/ Built("update") =>
        /\ builder.body.some
        /\ builder.body.v = DnsRecord_serialize(record)
        /\ Flatten(builder.body.v) # Flatten(self.body.v)

C1_Witness ==
    /\ Built("create")
    /\ self.body.some
    /\ self.method = "DELETE"
    /\ record = ScenarioRecord
    /\ Flatten(builder.body.v)
        = "{\"type\":\"A\",\"name\":\"www\",\"priority\":null,\"port\":null,"
          \o "\"data\":\"1.2.3.4\",\"weight\":null}"

\* C2: delete returns a DELETE builder without a body, whatever method and
\* body the builder it was called on had.
C2_DeleteNoBody ==
    Built("delete") => builder.method = "DELETE" /\ ~builder.body.some

C2_Witness ==
    Built("delete") /\ self.body.some /\ self.method = "POST" /\ ~builder.body.some

\* C3: create, update and delete return a builder with the url and the auth
\* of the builder they were called on.
C3_UrlAuthKept ==
    pc = "built" => builder.url = self.url /\ builder.auth = self.auth

C3_Witness ==
    /\ Built("update")
    /\ self.auth = "token-2"
    /\ builder.auth = "token-2"
    /\ builder.url = "https://api.digitalocean.com/v2/domains/super.com/records/1234"

\* C4: a record that cannot be encoded makes create or update report an
\* error to the caller; the process does not crash.
C4_NoCrash == pc # "panicked"

\* C5: create is offered on the collection builder, update and delete on the
\* single-record builder and not on the collection builder.
C5_VerbScopes ==
    /\ Built("create") => self.resp_t = "DnsRecords"
    /\ Built("update") \/ Built("delete") => self.resp_t = "DnsRecord"

\* C6: the response shape of a builder returned by a verb is fixed by the
\* verb: single record after create and update, header-only after delete.
C6_ShapeByVerb ==
    pc = "built" =>
        /\ <<verb, builder.method, builder.resp_t>> \in
            {<<"create", "POST", "DnsRecord">>,
             <<"update", "PUT", "DnsRecord">>,
             <<"delete", "DELETE", "HeaderOnly">>}

C6_Witness ==
    Built("delete") /\ builder.resp_t = "HeaderOnly" /\ self.method = "GET"

C8_JsonObject ==
    Built("create") \/ Built("update") =>
        LET obj == json_decode(builder.body.v) IN
        /\ obj.ok
        /\ Keys(obj) = RecordKeys
        /\ Len(obj.members) = Cardinality(RecordKeys)
        /\ Values(obj, "type") = {JStr(record.rec_type)}
        /\ Values(obj, "name") = {OfOptStr(record.name)}
        /\ Values(obj, "data") = {OfOptStr(record.data)}
        /\ Values(obj, "priority") = {OfOptU64(record.priority)}
        /\ Values(obj, "port") = {OfOptU64(record.port)}
        /\ Values(obj, "weight") = {OfOptU64(record.weight)}
        /\ record = ScenarioRecord =>
            /\ Values(obj, "type") = {JStr("A")}
            /\ Values(obj, "name") = {JStr("www")}
            /\ Values(obj, "data") = {JStr("1.2.3.4")}
            /\ Values(obj, "priority") \cup Values(obj, "port")
                   \cup Values(obj, "weight") = {JNull}

C8_Witness ==
    /\ Built("create")
    /\ record = ScenarioRecord
    /\ Values(json_decode(builder.body.v), "weight") = {JNull}
    /\ Values(json_decode(builder.body.v), "name") = {JStr("www")}

\* C9: a displayed record is six lines, each ended by a newline, labelled
\* Record Type, Name, Data, Priority, Port, Weight in that order; an optional
\* field shows its value when present and None when absent.
C9_RecordDisplay ==
    pc = "record_shown" =>
        LET lines == Lines(shown) IN
        /\ Len(lines) = 7
        /\ lines[7] = <<>>
        /\ lines[1] = <<"Record Type: ", record.rec_type>>
        /\ lines[2] = <<"Name: ", IF record.name.some THEN record.name.v ELSE "None">>
        /\ lines[3] = <<"Data: ", IF record.data.some THEN record.data.v ELSE "None">>
        /\ Flatten(lines[4]) = "Priority: "
            \o (IF record.priority.some THEN ToString(record.priority.v) ELSE "None")
        /\ Flatten(lines[5]) = "Port: "
            \o (IF record.port.some THEN ToString(record.port.v) ELSE "None")
        /\ Flatten(lines[6]) = "Weight: "
            \o (IF record.weight.some THEN ToString(record.weight.v) ELSE "None")

C9_Witness ==
    /\ pc = "record_shown"
    /\ record.rec_type = "MX"
    /\ Flatten(shown)
        = "Record Type: MX\nName: None\nData: None\nPriority: None\nPort: None\nWeight: None\n"

\* C10 as stated: a displayed account is a four-line report, the droplet
\* limit written without a fractional part, "Droplet Limit: 25" for the
\* account 25.0 / a@b.com / abc-123 / true.
C10_FourLineReport ==
    pc = "account_shown" =>
        LET lines == Lines(shown) IN
        /\ Len(lines) = 4
        /\ \E i \in 1..Len(lines) :
            /\ Head(lines[i]) = "\tDroplet Limit: "
            /\ \A j \in 2..Len(lines[i]) : lines[i][j] # "."
            /\ account = ScenarioAccount => Flatten(lines[i]) = "\tDroplet Limit: 25"

\* C10: a displayed account is five lines: the header line followed by the
\* four labelled lines Email, Droplet Limit, UUID, E-Mail Verified in that
\* order, the last without a newline; the droplet limit is written without a
\* fractional part, and the account 25.0 / a@b.com / abc-123 / true shows
\* "Droplet Limit: 25".
C10_AccountDisplay ==
    pc = "account_shown" =>
        LET lines == Lines(shown) IN
        /\ Len(lines) = 5
        /\ lines[1] = <<"DigitalOcean Account:">>
        /\ lines[2] = <<"\tEmail: ", account.email>>
        /\ Head(lines[3]) = "\tDroplet Limit: "
        /\ \A i \in 2..Len(lines[3]) :
            IsDigit(lines[3][i]) \/ lines[3][i] \in {"-", "NaN", "inf"}
        /\ lines[4] = <<"\tUUID: ", account.uuid>>
        /\ lines[5] = <<"\tE-Mail Verified: ",
                        IF account.email_verified THEN "true" ELSE "false">>
        /\ account = ScenarioAccount =>
            Flatten(shown) = "DigitalOcean Account:\n\tEmail: a@b.com\n"
                \o "\tDroplet Limit: 25\n\tUUID: abc-123\n\tE-Mail Verified: true"

C10_Witness ==
    /\ pc = "account_shown"
    /\ account = ScenarioAccount
    /\ Flatten(Lines(shown)[3]) = "\tDroplet Limit: 25"

====
